---- MODULE Spec2Model ----
(***************************************************************************)
(* A model of src/scraper.py: the daily job scraper's data model, the      *)
(* relevance scorer, the seen-jobs store and the run() orchestrator.       *)
(*                                                                         *)
(* Python strings are TLA+ strings; the string operations the program uses *)
(* (lower(), the "in" substring test, slicing, f-string concatenation and  *)
(* the salary regular expression) are computed character by character.     *)
(* hashlib.md5 is taken to be collision free, so a job_id is represented   *)
(* by the string that is hashed.  datetime values are integers counting    *)
(* days; isoformat() wraps the day in a tuple and fromisoformat() unwraps. *)
(***************************************************************************)
EXTENDS Integers, Sequences, FiniteSets, TLC

VARIABLES
    clock,          \* datetime.now(), in days
    file,           \* contents of ./data/seen_jobs.json
    args,           \* the parsed command line of the current run
    cfg,            \* Config._cfg of the current run
    data,           \* SeenJobsDB.data of the current run
    pc,             \* position of run()
    active,         \* names of active_scrapers, in iteration order
    idx,            \* number of active scrapers already iterated
    all_jobs,       \* run(): all_jobs
    unique_jobs,    \* run(): unique_jobs
    scored_jobs,    \* run(): scored_jobs
    relevant_jobs,  \* run(): relevant_jobs
    new_jobs,       \* run(): new_jobs
    marked,         \* number of new_jobs the marking loop has passed
    report_jobs,    \* run(): report_jobs, the list given to generate()
    report,         \* the report artifact written by generate(), or NoReport
    run_start,      \* history: clock value when the current run started
    cleanups,       \* history: cleanup() calls of the current run
    cleanup_days,   \* history: the argument of the latest cleanup() call
    faulted,        \* history: a scraper of the current run has raised
    returned,       \* history: postings returned by scrapers that did not raise
    expired,        \* history: job_ids whose entry was past retention at run start
    marked_run      \* history: job_id -> start of the latest run that marked it

vars == <<clock, file, args, cfg, data, pc, active, idx, all_jobs, unique_jobs,
          scored_jobs, relevant_jobs, new_jobs, marked, report_jobs, report,
          run_start, cleanups, cleanup_days, faulted, returned, expired,
          marked_run>>

(***************************************************************************)
(* Bounds of the model.                                                    *)
(***************************************************************************)
MaxJobs == 2        \* postings all scrapers of one run return together
MaxClock == 31      \* the last day on which a run starts

(***************************************************************************)
(* Strings.                                                                *)
(***************************************************************************)
Min(a, b) == IF a < b THEN a ELSE b
Max(a, b) == IF a > b THEN a ELSE b

CharAt(s, i) == IF i >= 1 /\ i <= Len(s) THEN SubSeq(s, i, i) ELSE ""

\* s[i-1:j] for 1 <= i, clipped to the end of s like a Python slice
Slice(s, i, j) == IF i > Len(s) THEN "" ELSE SubSeq(s, i, Min(j, Len(s)))

\* s[:n]
Prefix(s, n) == Slice(s, 1, n)

UpperChars == "ABCDEFGHIJKLMNOPQRSTUVWXYZ"
LowerChars == "abcdefghijklmnopqrstuvwxyz"

UpperSet == {SubSeq(UpperChars, i, i) : i \in 1..Len(UpperChars)}

LowerChar(c) ==
    IF c \notin UpperSet THEN c
    ELSE LET i == CHOOSE k \in 1..Len(UpperChars) : SubSeq(UpperChars, k, k) = c
         IN  SubSeq(LowerChars, i, i)

RECURSIVE lower(_)
\* str.lower()
lower(s) == IF s = "" THEN ""
            ELSE LowerChar(SubSeq(s, 1, 1)) \o lower(SubSeq(s, 2, Len(s)))

\* sub in s
Contains(sub, s) ==
    \E i \in 0..(Len(s) - Len(sub)) : SubSeq(s, i + 1, i + Len(sub)) = sub

\* [x.lower() for x in list]
LowerAll(list) == [i \in DOMAIN list |-> lower(list[i])]

Digits == "0123456789"
IsDigit(c) == c # "" /\ Contains(c, Digits)
IsSpace(c) == c \in {" ", "\t", "\n", "\r", "\f"}

DigitVal(c) == (CHOOSE i \in 1..10 : SubSeq(Digits, i, i) = c) - 1

RECURSIVE ToInt(_)
\* int(s) for a string of decimal digits
ToInt(s) == IF s = "" THEN 0
            ELSE 10 * ToInt(SubSeq(s, 1, Len(s) - 1)) + DigitVal(SubSeq(s, Len(s), Len(s)))

AllDigits(s, i, n) == \A k \in i..(i + n - 1) : IsDigit(CharAt(s, k))

(***************************************************************************)
(* Data model.                                                             *)
(***************************************************************************)
\* JobPosting.__post_init__: the string whose md5 is the job_id
JobId(title, company, url) == title \o "|" \o company \o "|" \o url

\* JobPosting(...); source and date_posted are read by the report renderer
\* only and are left out
JobPosting(title, company, location, url, description, salary_info) ==
    [title |-> title, company |-> company, location |-> location, url |-> url,
     description |-> description, salary_info |-> salary_info,
     relevance_score |-> 0, match_reasons |-> <<>>,
     job_id |-> JobId(title, company, url)]

(***************************************************************************)
(* Configuration: the properties of class Config over the loaded document. *)
(***************************************************************************)
target_titles(c) == LowerAll(c.profile.target_titles)
positive_keywords(c) == LowerAll(c.profile.positive_keywords)
negative_keywords(c) == LowerAll(c.profile.negative_keywords)
min_score(c) == c.profile.min_relevance_score
location_include(c) == LowerAll(c.locations.include)
location_exclude(c) == LowerAll(c.locations.exclude)
seniority_indicators(c) == LowerAll(c.salary.seniority_indicators)
RECURSIVE Flatten(_)
Flatten(lists) == IF lists = <<>> THEN <<>> ELSE Head(lists) \o Flatten(Tail(lists))

\* the categories of target_companies flattened into one list
target_companies(c) == IF "target_companies" \in DOMAIN c
                       THEN Flatten(c.target_companies) ELSE <<>>

(***************************************************************************)
(* RelevanceScorer.score                                                   *)
(***************************************************************************)
\* one entry of match_reasons: the rule that fired, the phrase it names and
\* the number it names
Reason(rule, what, n) == [rule |-> rule, what |-> what, n |-> n]

RECURSIVE Join(_)
\* ', '.join(list)
Join(list) == IF list = <<>> THEN ""
              ELSE IF Len(list) = 1 THEN list[1]
              ELSE list[1] \o ", " \o Join(Tail(list))

\* index of the first element of list that occurs in text, 0 when none does
FirstIn(list, text) ==
    LET hit == {i \in DOMAIN list : Contains(list[i], text)}
    IN  IF hit = {} THEN 0 ELSE CHOOSE i \in hit : \A k \in hit : i <= k

\* [x for x in list if x in text]
AllIn(list, text) == SelectSeq(list, LAMBDA x : Contains(x, text))

\* the seniority indicators tried after the titles instead of in the else
TitleRuleAdditive(job, c) ==
    LET title_lower == lower(job.title)
        t == FirstIn(target_titles(c), title_lower)
        s == FirstIn(seniority_indicators(c), title_lower)
        tr == IF t # 0 THEN <<Reason("Title match", target_titles(c)[t], 0)>> ELSE <<>>
        sr == IF s # 0 THEN <<Reason("Seniority match", seniority_indicators(c)[s], 0)>>
              ELSE <<>>
    IN  [pts |-> 35 * Len(tr) + 15 * Len(sr), reasons |-> tr \o sr]

\* Title match, with the seniority indicators as the for-else branch
TitleRule(job, c) ==
    LET title_lower == lower(job.title)
        t == FirstIn(target_titles(c), title_lower)
        s == FirstIn(seniority_indicators(c), title_lower)
    IN  IF t # 0
        THEN [pts |-> 35, reasons |-> <<Reason("Title match", target_titles(c)[t], 0)>>]
        ELSE IF s # 0
        THEN [pts |-> 15, reasons |-> <<Reason("Seniority match", seniority_indicators(c)[s], 0)>>]
        ELSE [pts |-> 0, reasons |-> <<>>]

\* Industry/function keywords
KeywordRule(job, c) ==
    LET text == lower(job.title \o " " \o job.company \o " " \o job.description
                      \o " " \o job.location)
        kw_hits == AllIn(positive_keywords(c), text)
    IN  IF kw_hits # <<>>
        THEN [pts |-> Min(30, Len(kw_hits) * 5),
              reasons |-> <<Reason("Keywords", Join(SubSeq(kw_hits, 1, Min(5, Len(kw_hits)))), Len(kw_hits))>>]
        ELSE [pts |-> 0, reasons |-> <<>>]

loc_lower(job) == lower(job.location \o " " \o Prefix(job.description, 500))

\* Location match
LocationRule(job, c) ==
    LET l == FirstIn(location_include(c), loc_lower(job))
    IN  IF l # 0
        THEN [pts |-> 20, reasons |-> <<Reason("Location", location_include(c)[l], 0)>>]
        ELSE [pts |-> 0, reasons |-> <<>>]

\* Location exclusion: every excluded phrase that occurs costs 50
ExclusionRule(job, c) ==
    LET hits == AllIn(location_exclude(c), loc_lower(job))
    IN  [pts |-> 0 - 50 * Len(hits),
         reasons |-> [i \in DOMAIN hits |-> Reason("Location excluded", hits[i], 0)]]

\* Company match, in either direction
CompanyRule(job, c) ==
    LET company_lower == lower(job.company)
        tcs == target_companies(c)
        hit == {i \in DOMAIN tcs : \/ Contains(lower(tcs[i].name), company_lower)
                                   \/ Contains(company_lower, lower(tcs[i].name))}
    IN  IF hit # {}
        THEN [pts |-> 15, reasons |-> <<Reason("Target company", tcs[CHOOSE i \in hit : \A k \in hit : i <= k].name, 0)>>]
        ELSE [pts |-> 0, reasons |-> <<>>]

\* the ways (\d{2,3})[.,]?(\d{3})? can take its digits, in backtracking order
SalaryAlts == << [n1 |-> 3, sep |-> 1, n2 |-> 3], [n1 |-> 3, sep |-> 1, n2 |-> 0],
                 [n1 |-> 3, sep |-> 0, n2 |-> 3], [n1 |-> 3, sep |-> 0, n2 |-> 0],
                 [n1 |-> 2, sep |-> 1, n2 |-> 3], [n1 |-> 2, sep |-> 1, n2 |-> 0],
                 [n1 |-> 2, sep |-> 0, n2 |-> 3], [n1 |-> 2, sep |-> 0, n2 |-> 0] >>

RECURSIVE SkipSpace(_, _)
\* \s* is greedy, and no currency marker starts with white space
SkipSpace(s, i) == IF IsSpace(CharAt(s, i)) THEN SkipSpace(s, i + 1) ELSE i

\* does the regular expression match at position i taking its digits as a
SalaryAltAt(s, i, a) ==
    LET p == i + a.n1 + a.sep
        q == SkipSpace(s, p + a.n2)
    IN  /\ AllDigits(s, i, a.n1)
        /\ a.sep = 1 => CharAt(s, i + a.n1) \in {".", ","}
        /\ AllDigits(s, p, a.n2)
        /\ \/ CharAt(s, q) = "€"
           \/ Slice(s, q, q + 2) = "eur"

\* re.search: the leftmost match, as [g1, g2], or <<>> when there is none
SalarySearch(s) ==
    LET ok == {i \in 1..Len(s) : \E k \in DOMAIN SalaryAlts : SalaryAltAt(s, i, SalaryAlts[k])}
    IN  IF ok = {} THEN <<>>
        ELSE LET i == CHOOSE m \in ok : \A n \in ok : m <= n
                 ks == {k \in DOMAIN SalaryAlts : SalaryAltAt(s, i, SalaryAlts[k])}
                 a == SalaryAlts[CHOOSE m \in ks : \A n \in ks : m <= n]
                 p == i + a.n1 + a.sep
             IN  <<[g1 |-> SubSeq(s, i, i + a.n1 - 1),
                    g2 |-> IF a.n2 = 0 THEN "" ELSE SubSeq(s, p, p + a.n2 - 1)]>>

\* Salary indicators
SalaryRule(job) ==
    LET salary_text == lower(job.salary_info \o " " \o Prefix(job.description, 1000))
        m == SalarySearch(salary_text)
        amount == IF m[1].g2 # "" THEN ToInt(m[1].g1 \o m[1].g2) ELSE ToInt(m[1].g1) * 1000
    IN  IF m = <<>> THEN [pts |-> 0, reasons |-> <<>>]
        ELSE IF amount >= 100000
        THEN [pts |-> 10, reasons |-> <<Reason("Salary", "", amount)>>]
        ELSE IF amount < 60000
        THEN [pts |-> 0 - 20, reasons |-> <<Reason("Low salary", "", amount)>>]
        ELSE [pts |-> 0, reasons |-> <<>>]

\* Negative keyword penalty: every negative keyword in the title costs 40
NegativeRule(job, c) ==
    LET hits == AllIn(negative_keywords(c), lower(job.title))
    IN  [pts |-> 0 - 40 * Len(hits),
         reasons |-> [i \in DOMAIN hits |-> Reason("Negative", hits[i], 0)]]

\* the keyword rule evaluated before the title rule
RulesKeywordsFirst(job, c) ==
    << KeywordRule(job, c), TitleRule(job, c), LocationRule(job, c),
       ExclusionRule(job, c), CompanyRule(job, c), SalaryRule(job),
       NegativeRule(job, c) >>

\* the seven rules in the order score() evaluates them
Rules(job, c) == << TitleRule(job, c), KeywordRule(job, c), LocationRule(job, c),
                    ExclusionRule(job, c), CompanyRule(job, c), SalaryRule(job),
                    NegativeRule(job, c) >>

RECURSIVE SumPts(_)
SumPts(rs) == IF rs = <<>> THEN 0 ELSE Head(rs).pts + SumPts(Tail(rs))

RECURSIVE CatReasons(_)
CatReasons(rs) == IF rs = <<>> THEN <<>> ELSE Head(rs).reasons \o CatReasons(Tail(rs))

\* the score before clamping
RawScore(job, c) == SumPts(Rules(job, c))

\* the clamp without its lower bound
ClampNoFloor(raw) == Min(100, raw)

\* max(0, min(100, score))
Clamp(raw) == Max(0, Min(100, raw))

\* RelevanceScorer.score: the posting with its two score fields set
score(job, c) ==
    LET rs == Rules(job, c)
    IN  [job EXCEPT !.relevance_score = Clamp(SumPts(rs)),
                    !.match_reasons = CatReasons(rs)]

(***************************************************************************)
(* SeenJobsDB                                                              *)
(***************************************************************************)
None == <<>>

\* datetime.isoformat() and datetime.fromisoformat()
isoformat(t) == <<t>>
fromisoformat(s) == s[1]

\* timedelta(days=d), in the unit of the clock
timedelta(d) == d

EmptySeen == [k \in {} |-> None]

\* the state _load() and reset() start from
EmptyData == [seen |-> EmptySeen, last_run |-> None,
              stats |-> [total_seen |-> 0, total_reported |-> 0]]

NoFile == [kind |-> "missing"]
\* a file json.load() rejects with JSONDecodeError
GarbageFile == [kind |-> "garbage"]
JsonFile(d) == [kind |-> "json", doc |-> d]

\* SeenJobsDB._load: a file that parses is returned as it is, whatever it
\* holds; a missing file and a JSONDecodeError give the empty state
Load(f) == IF f.kind = "json" THEN f.doc ELSE EmptyData

\* SeenJobsDB.save: the document written to the file
save(d, now) == [d EXCEPT !.last_run = isoformat(now)]

\* the lookup by title instead of job_id
IsNewByTitle(d, job) == job.title \notin DOMAIN d.seen

\* SeenJobsDB.is_new
is_new(d, job) == job.job_id \notin DOMAIN d.seen

\* dict assignment m[k] = v
Put(m, k, v) == [x \in DOMAIN m \cup {k} |-> IF x = k THEN v ELSE m[x]]

\* SeenJobsDB.mark_seen
mark_seen(d, job, now) ==
    [d EXCEPT !.seen = Put(d.seen, job.job_id,
                           [title |-> job.title, company |-> job.company,
                            first_seen |-> isoformat(now),
                            score |-> job.relevance_score])]

\* a cleanup that drops nothing
CleanupNothing(d, now, days) == d

\* a cleanup with the comparison reversed
CleanupReversed(d, now, days) ==
    LET cutoff == now - timedelta(days)
        keep == {k \in DOMAIN d.seen : fromisoformat(d.seen[k].first_seen) < cutoff}
    IN  [d EXCEPT !.seen = [k \in keep |-> d.seen[k]]]

\* a string datetime.fromisoformat() accepts
ValidIso(s) == Len(s) = 1

\* cleanup() raises: data["seen"] is a KeyError, or fromisoformat() rejects
\* the first_seen of an entry
CleanupRaises(d) ==
    \/ "seen" \notin DOMAIN d
    \/ \E k \in DOMAIN d.seen : ~ValidIso(d.seen[k].first_seen)

\* SeenJobsDB.cleanup
cleanup(d, now, days) ==
    LET cutoff == now - timedelta(days)
        keep == {k \in DOMAIN d.seen : fromisoformat(d.seen[k].first_seen) > cutoff}
    IN  [d EXCEPT !.seen = [k \in keep |-> d.seen[k]]]

\* an update_stats that stores the count of this run instead of adding it
UpdateStatsOverwrite(d, new_count) ==
    LET st == IF "stats" \in DOMAIN d THEN d.stats
              ELSE [total_seen |-> 0, total_reported |-> 0]
    IN  [x \in DOMAIN d \cup {"stats"} |->
            IF x = "stats"
            THEN [st EXCEPT !.total_seen = Cardinality(DOMAIN d.seen),
                            !.total_reported = new_count]
            ELSE d[x]]

\* an update_stats that adds the count of this run to total_seen instead of
\* taking the size of the map
UpdateStatsCountNew(d, new_count) ==
    LET st == IF "stats" \in DOMAIN d THEN d.stats
              ELSE [total_seen |-> 0, total_reported |-> 0]
    IN  [x \in DOMAIN d \cup {"stats"} |->
            IF x = "stats"
            THEN [st EXCEPT !.total_seen = st.total_seen + new_count,
                            !.total_reported = st.total_reported + new_count]
            ELSE d[x]]

\* an update_stats that takes the size of the map and leaves total_reported
\* as it was
UpdateStatsSeenOnly(d, new_count) ==
    LET st == IF "stats" \in DOMAIN d THEN d.stats
              ELSE [total_seen |-> 0, total_reported |-> 0]
    IN  [x \in DOMAIN d \cup {"stats"} |->
            IF x = "stats"
            THEN [st EXCEPT !.total_seen = Cardinality(DOMAIN d.seen)]
            ELSE d[x]]

\* SeenJobsDB.update_stats
update_stats(d, new_count) ==
    LET st == IF "stats" \in DOMAIN d THEN d.stats
              ELSE [total_seen |-> 0, total_reported |-> 0]
    IN  [x \in DOMAIN d \cup {"stats"} |->
            IF x = "stats"
            THEN [st EXCEPT !.total_seen = Cardinality(DOMAIN d.seen),
                            !.total_reported = st.total_reported + new_count]
            ELSE d[x]]

(***************************************************************************)
(* The steps of run() that are computations on lists.                      *)
(***************************************************************************)
\* the key of the deduplication loop
DedupKey(job) == IF job.url # "" THEN job.url ELSE job.title \o "|" \o job.company

RECURSIVE DedupFrom(_, _, _)
DedupFrom(jobs, seen_urls, unique) ==
    IF jobs = <<>> THEN unique
    ELSE LET job == Head(jobs)
             key == DedupKey(job)
         IN  IF key \notin seen_urls
             THEN DedupFrom(Tail(jobs), seen_urls \cup {key}, Append(unique, job))
             ELSE DedupFrom(Tail(jobs), seen_urls, unique)

\* the loop started at the second posting
DedupSkipFirst(jobs) == IF jobs = <<>> THEN <<>> ELSE DedupFrom(Tail(jobs), {}, <<>>)

\* the deduplication loop of run()
Dedup(jobs) == DedupFrom(jobs, {}, <<>>)

\* [scorer.score(job) for job in unique_jobs]
ScoreAll(jobs, c) == [i \in DOMAIN jobs |-> score(jobs[i], c)]

\* [j for j in scored_jobs if j.relevance_score >= cfg.min_score]
Relevant(jobs, c) == SelectSeq(jobs, LAMBDA j : j.relevance_score >= min_score(c))

\* [j for j in relevant_jobs if seen_db.is_new(j)]
NewJobs(jobs, d) == SelectSeq(jobs, LAMBDA j : is_new(d, j))

\* cfg.output.get("max_results_per_report", 50)
max_results(c) == IF "max_results_per_report" \in DOMAIN c.output
                  THEN c.output.max_results_per_report ELSE 50

\* new_jobs[:max_results]
Truncate(jobs, n) == SubSeq(jobs, 1, Min(n, Len(jobs)))

RECURSIVE InsertByScore(_, _)
\* j put behind every element of the sorted list whose score is not lower
InsertByScore(sorted, j) ==
    IF sorted = <<>> THEN <<j>>
    ELSE IF Head(sorted).relevance_score >= j.relevance_score
         THEN <<Head(sorted)>> \o InsertByScore(Tail(sorted), j)
         ELSE <<j>> \o sorted

RECURSIVE SortFrom(_, _)
SortFrom(jobs, sorted) ==
    IF jobs = <<>> THEN sorted
    ELSE SortFrom(Tail(jobs), InsertByScore(sorted, Head(jobs)))

\* jobs.sort(key=lambda j: j.relevance_score, reverse=True), a stable sort
SortByScore(jobs) == SortFrom(jobs, <<>>)

(***************************************************************************)
(* Inputs: the command lines, configuration documents and postings the     *)
(* model draws from.                                                       *)
(***************************************************************************)
\* the keys of the scrapers dict of run(), in its order
ScraperNames == <<"linkedin", "indeed", "stepstone", "careers", "startups", "remote">>

\* values of --source: absent, a known name and an unknown one
NoSource == ""
SourceInputs == {NoSource, "remote", "glassdoor"}

\* a well-formed config.yaml
ValidCfg ==
    [profile |-> [target_titles |-> <<"Strategy Manager">>,
                  positive_keywords |-> <<"health", "pharma", "digital">>,
                  negative_keywords |-> <<"intern">>,
                  min_relevance_score |-> 50],
     search_queries |-> <<"strategy manager health">>,
     locations |-> [include |-> <<"berlin">>, exclude |-> <<"usa">>],
     salary |-> [seniority_indicators |-> <<"senior">>],
     target_companies |-> << <<[name |-> "Acme Health"]>> >>,
     output |-> [max_results_per_report |-> 1]]

\* a config.yaml that parses and has no "profile" section
NoProfileCfg == [k \in DOMAIN ValidCfg \ {"profile"} |-> ValidCfg[k]]

\* values of --config: a well-formed document, a file that does not exist and
\* a document without the profile section
ConfigInputs == {"config.yaml", "missing.yaml", "noprofile.yaml"}

\* open() and yaml.safe_load() succeed
ConfigReadable(path) == path # "missing.yaml"

\* yaml.safe_load(f)
ConfigDoc(path) == IF path = "noprofile.yaml" THEN NoProfileCfg ELSE ValidCfg

\* the document has every section the properties of Config read
ConfigValid(path) == ConfigReadable(path) /\ "profile" \in DOMAIN ConfigDoc(path)

\* the command lines: every combination of the flags, the document without
\* profile section being tried with one scraper only
ArgsInputs ==
    {a \in [dry_run : BOOLEAN, reset : BOOLEAN, source : SourceInputs,
            config : ConfigInputs] :
        a.config = "noprofile.yaml" => a.source = "remote"}

\* two postings with different fields whose job_id strings coincide
JobA == JobPosting("Strategy Manager", "Acme", "Berlin",
                   "https://a.com/j?t=x|y", "", "")
JobB == JobPosting("Strategy Manager", "Acme|https://a.com/j?t=x", "Munich",
                   "y", "health pharma digital", "")
JobC == JobPosting("Senior Strategy Manager", "Acme Health", "Berlin, Germany",
                   "", "digital health pharma", "")
JobD == JobPosting("Intern Strategy", "Beta", "Austin, USA",
                   "https://b.com/2", "", "")

\* the postings the scrapers can return
Catalog == {JobA, JobB, JobC, JobD}

\* days between the end of one run and the start of the next
GapDays == {29, 31}

SeqsUpTo(S, n) == UNION {[1..k -> S] : k \in 0..n}

\* a state file that parses and has no "seen" key
EmptyDoc == [last_run |-> None]

\* a state file that parses and holds an entry whose first_seen is null
BadEntryDoc ==
    [seen |-> [k \in {"Data Lead|Acme|"} |->
                  [title |-> "Data Lead", company |-> "Acme",
                   first_seen |-> None, score |-> 55]],
     last_run |-> None,
     stats |-> [total_seen |-> 1, total_reported |-> 1]]

\* a state file that parses and has no "stats" key
NoStatsDoc == [seen |-> EmptySeen, last_run |-> None]

\* ./data/seen_jobs.json before the first run
FileInputs == {NoFile, GarbageFile, JsonFile(EmptyDoc), JsonFile(BadEntryDoc),
               JsonFile(NoStatsDoc)}

NoArgs == [dry_run |-> FALSE, reset |-> FALSE, source |-> NoSource, config |-> ""]
NoCfg == [unloaded |-> TRUE]
NoData == [unloaded |-> TRUE]
NoReport == [written |-> FALSE, jobs |-> <<>>]

(***************************************************************************)
(* run()                                                                   *)
(***************************************************************************)
NoLocals ==
    /\ active = <<>> /\ idx = 0
    /\ all_jobs = <<>> /\ unique_jobs = <<>> /\ scored_jobs = <<>>
    /\ relevant_jobs = <<>> /\ new_jobs = <<>> /\ marked = 0
    /\ report_jobs = <<>>

NoLocals1 ==
    /\ active' = <<>> /\ idx' = 0
    /\ all_jobs' = <<>> /\ unique_jobs' = <<>> /\ scored_jobs' = <<>>
    /\ relevant_jobs' = <<>> /\ new_jobs' = <<>> /\ marked' = 0
    /\ report_jobs' = <<>>

locals == <<active, idx, all_jobs, unique_jobs, scored_jobs, relevant_jobs,
            new_jobs, marked, report_jobs>>
history == <<run_start, cleanups, cleanup_days, faulted, returned, expired,
            marked_run>>

Init ==
    /\ clock = 0
    /\ file \in FileInputs
    /\ args = NoArgs /\ cfg = NoCfg /\ data = NoData
    /\ pc = "idle"
    /\ NoLocals
    /\ report = NoReport
    /\ run_start = 0 /\ cleanups = 0 /\ cleanup_days = 0
    /\ faulted = FALSE /\ returned = <<>>
    /\ expired = {} /\ marked_run = EmptySeen

\* main(): the command line is parsed and run(args) entered
Start ==
    /\ pc = "idle"
    /\ \E a \in ArgsInputs : args' = a
    /\ pc' = "config"
    /\ run_start' = clock
    /\ UNCHANGED <<clock, file, cfg, data, locals, report, cleanups, cleanup_days,
                   faulted, returned, expired, marked_run>>

\* cfg = Config(args.config), the first log line and the dry-run exit
LoadConfig ==
    /\ pc = "config"
    /\ IF ~ConfigReadable(args.config)
       THEN /\ pc' = "aborted"
            /\ cfg' = cfg
       ELSE /\ cfg' = ConfigDoc(args.config)
            /\ pc' = IF args.dry_run THEN "returned" ELSE "init"
    /\ UNCHANGED <<clock, file, args, data, locals, report, history>>

\* the retention window run() passes to cleanup()
RetentionDays == 30

\* entries of the loaded store that are older than the retention window
Expired(d, now, days) ==
    IF CleanupRaises(d) THEN {}
    ELSE {k \in DOMAIN d.seen :
             fromisoformat(d.seen[k].first_seen) < now - timedelta(days)}

\* seen_db = SeenJobsDB(...), and the reset exit
OpenStore ==
    /\ pc = "init"
    /\ IF args.reset
       THEN /\ data' = save(EmptyData, clock)
            /\ file' = JsonFile(save(EmptyData, clock))
            /\ pc' = "returned"
            /\ marked_run' = EmptySeen
            /\ expired' = expired
       ELSE /\ data' = Load(file)
            /\ file' = file
            /\ pc' = "cleanup"
            /\ marked_run' = marked_run
            /\ expired' = Expired(Load(file), clock, RetentionDays)
    /\ UNCHANGED <<clock, args, cfg, locals, report, run_start, cleanups,
                   cleanup_days, faulted, returned>>

\* seen_db.cleanup(days=d); an exception it raises is caught nowhere and
\* ends the run
CleanupCall(d) ==
    /\ pc = "cleanup"
    /\ IF CleanupRaises(data)
       THEN data' = data /\ pc' = "aborted"
       ELSE data' = cleanup(data, clock, d) /\ pc' = "select"
    /\ cleanup_days' = d
    /\ cleanups' = cleanups + 1
    /\ UNCHANGED <<clock, file, args, cfg, locals, report, run_start,
                   faulted, returned, expired, marked_run>>

\* seen_db.cleanup(days=30)
Cleanup == CleanupCall(RetentionDays)

InScrapers(name) == \E i \in DOMAIN ScraperNames : ScraperNames[i] = name

\* the choice of active_scrapers, and the exit on an unknown source
SelectScrapers ==
    /\ pc = "select"
    /\ IF args.source # NoSource
       THEN IF InScrapers(args.source)
            THEN active' = <<args.source>> /\ pc' = "fetch"
            ELSE active' = active /\ pc' = "returned"
       ELSE active' = ScraperNames /\ pc' = "fetch"
    /\ UNCHANGED <<clock, file, args, cfg, data, idx, all_jobs, unique_jobs,
                   scored_jobs, relevant_jobs, new_jobs, marked, report_jobs,
                   report, history>>

\* all_jobs after a scraper that returned jobs
AfterReturn(all, jobs) == all \o jobs

\* all_jobs after a scraper that raised: the except clause only logs
AfterRaise(all) == all

\* where run() is after one scraper: the next scraper, or past the loop
AfterScraper(i, n) == IF i < n THEN "fetch" ELSE "dedup"

\* the exception of a scraper left uncaught
AbortOnRaise(i, n) == "aborted"

\* where run() is after a scraper raised: the exception is caught
AfterCaught(i, n) == AfterScraper(i, n)

\* one iteration of the scraper loop
Fetch ==
    /\ pc = "fetch"
    /\ idx < Len(active)
    /\ idx' = idx + 1
    /\ \/ \E jobs \in SeqsUpTo(Catalog, MaxJobs - Len(all_jobs)) :
            /\ all_jobs' = AfterReturn(all_jobs, jobs)
            /\ returned' = returned \o jobs
            /\ faulted' = faulted
            /\ pc' = AfterScraper(idx + 1, Len(active))
       \/ /\ all_jobs' = AfterRaise(all_jobs)
          /\ returned' = returned
          /\ faulted' = TRUE
          /\ pc' = AfterCaught(idx + 1, Len(active))
    /\ UNCHANGED <<clock, file, args, cfg, data, active, unique_jobs, scored_jobs,
                   relevant_jobs, new_jobs, marked, report_jobs, report,
                   run_start, cleanups, cleanup_days, expired, marked_run>>

\* the deduplication loop
Deduplicate ==
    /\ pc = "dedup"
    /\ unique_jobs' = Dedup(all_jobs)
    /\ pc' = "score"
    /\ UNCHANGED <<clock, file, args, cfg, data, active, idx, all_jobs,
                   scored_jobs, relevant_jobs, new_jobs, marked, report_jobs,
                   report, history>>

\* scorer.score() raises KeyError on its first read of cfg.target_titles when
\* the document has no profile section; with no posting it is never called
ScoreRaises(jobs, c) == jobs # <<>> /\ "profile" \notin DOMAIN c

\* cfg.min_score raises KeyError when the document has no profile section
FilterRaises(c) == "profile" \notin DOMAIN c

\* the scorer sets the score fields of each posting in place, so the
\* elements of unique_jobs change with those of scored_jobs
Score ==
    /\ pc = "score"
    /\ IF ScoreRaises(unique_jobs, cfg)
       THEN /\ scored_jobs' = scored_jobs
            /\ unique_jobs' = unique_jobs
            /\ pc' = "aborted"
       ELSE /\ scored_jobs' = ScoreAll(unique_jobs, cfg)
            /\ unique_jobs' = scored_jobs'
            /\ pc' = "filter"
    /\ UNCHANGED <<clock, file, args, cfg, data, active, idx, all_jobs,
                   relevant_jobs, new_jobs, marked, report_jobs, report, history>>

\* the threshold filter
Filter ==
    /\ pc = "filter"
    /\ IF FilterRaises(cfg)
       THEN relevant_jobs' = relevant_jobs /\ pc' = "aborted"
       ELSE relevant_jobs' = Relevant(scored_jobs, cfg) /\ pc' = "novelty"
    /\ UNCHANGED <<clock, file, args, cfg, data, active, idx, all_jobs,
                   unique_jobs, scored_jobs, new_jobs, marked, report_jobs,
                   report, history>>

\* the novelty filter
Novelty ==
    /\ pc = "novelty"
    /\ new_jobs' = NewJobs(relevant_jobs, data)
    /\ marked' = 0
    /\ pc' = "mark"
    /\ UNCHANGED <<clock, file, args, cfg, data, active, idx, all_jobs,
                   unique_jobs, scored_jobs, relevant_jobs, report_jobs, report,
                   history>>

\* one iteration of "for job in new_jobs: seen_db.mark_seen(job)"
MarkSeen ==
    /\ pc = "mark"
    /\ marked < Len(new_jobs)
    /\ data' = mark_seen(data, new_jobs[marked + 1], clock)
    /\ marked' = marked + 1
    /\ marked_run' = Put(marked_run, new_jobs[marked + 1].job_id, isoformat(run_start))
    /\ UNCHANGED <<clock, file, args, cfg, pc, active, idx, all_jobs, unique_jobs,
                   scored_jobs, relevant_jobs, new_jobs, report_jobs, report,
                   run_start, cleanups, cleanup_days, faulted, returned, expired>>

\* seen_db.update_stats(len(new_jobs))
UpdateStats ==
    /\ pc = "mark"
    /\ marked = Len(new_jobs)
    /\ data' = update_stats(data, Len(new_jobs))
    /\ pc' = "save"
    /\ UNCHANGED <<clock, file, args, cfg, locals, report, history>>

\* seen_db.save()
Save ==
    /\ pc = "save"
    /\ data' = save(data, clock)
    /\ file' = JsonFile(data')
    /\ pc' = "truncate"
    /\ UNCHANGED <<clock, args, cfg, locals, report, history>>

\* report_jobs = new_jobs[:max_results]
TruncateReport ==
    /\ pc = "truncate"
    /\ report_jobs' = Truncate(new_jobs, max_results(cfg))
    /\ pc' = "generate"
    /\ UNCHANGED <<clock, file, args, cfg, data, active, idx, all_jobs,
                   unique_jobs, scored_jobs, relevant_jobs, new_jobs, marked,
                   report, history>>

\* reporter.generate(report_jobs, seen_db): the list is sorted in place and
\* the report is written
Generate ==
    /\ pc = "generate"
    /\ report_jobs' = SortByScore(report_jobs)
    /\ report' = [written |-> TRUE, jobs |-> report_jobs']
    /\ pc' = "done"
    /\ UNCHANGED <<clock, file, args, cfg, data, active, idx, all_jobs,
                   unique_jobs, scored_jobs, relevant_jobs, new_jobs, marked,
                   history>>

\* the process is gone; the next one starts d days later (a run itself takes
\* less than a day, so every reading of the clock in one run is the same day)
Wait ==
    /\ pc \in {"done", "returned", "aborted"}
    /\ \E d \in GapDays :
         /\ clock + d <= MaxClock
         /\ clock' = clock + d
    /\ pc' = "idle"
    /\ args' = NoArgs /\ cfg' = NoCfg /\ data' = NoData
    /\ NoLocals1
    /\ report' = NoReport
    /\ cleanups' = 0 /\ faulted' = FALSE /\ returned' = <<>> /\ expired' = {}
    /\ UNCHANGED <<file, run_start, cleanup_days, marked_run>>

Next ==
    \/ Start \/ LoadConfig \/ OpenStore \/ Cleanup \/ SelectScrapers \/ Fetch
    \/ Deduplicate \/ Score \/ Filter \/ Novelty \/ MarkSeen \/ UpdateStats
    \/ Save \/ TruncateReport \/ Generate \/ Wait

Spec == Init /\ [][Next]_vars

(***************************************************************************)
(* The scorer on its own: score() applied to postings and profiles drawn   *)
(* from bounded sets.                                                      *)
(***************************************************************************)
\* the posting of the scoring scenario with a six-figure salary
JobRich == JobPosting("Senior Strategy Manager", "Acme Health", "Berlin, Germany",
                      "", "digital health pharma", "120.000 €")
\* a posting that collects every penalty
JobPoor == JobPosting("Junior Intern", "Beta", "Austin, USA",
                      "https://b.com/9", "pay 45.000 EUR", "")

ScoreJobs == {JobA, JobC, JobD, JobRich, JobPoor}

ScoreProfiles ==
    { [profile |-> [target_titles |-> tt, positive_keywords |-> pk,
                    negative_keywords |-> nk, min_relevance_score |-> 50],
       search_queries |-> <<>>,
       locations |-> [include |-> li, exclude |-> le],
       salary |-> [seniority_indicators |-> <<"senior", "head">>],
       target_companies |-> tc,
       output |-> [max_results_per_report |-> 1]] :
      tt \in {<<>>, <<"Strategy Manager">>},
      pk \in {<<>>, <<"health", "pharma", "digital">>,
              <<"health", "pharma", "digital", "strategy", "manager", "acme", "berlin">>},
      nk \in {<<>>, <<"intern", "junior">>},
      li \in {<<>>, <<"Berlin">>},
      le \in {<<>>, <<"usa", "austin">>},
      tc \in {<<>>, << <<[name |-> "Acme Health"]>> >>} }

InitScore ==
    /\ clock = 0 /\ file = NoFile
    /\ args = [NoArgs EXCEPT !.config = "config.yaml"]
    /\ cfg \in ScoreProfiles
    /\ data = EmptyData
    /\ pc = "score"
    /\ active = ScraperNames /\ idx = Len(ScraperNames)
    /\ unique_jobs \in (SeqsUpTo(ScoreJobs, MaxJobs) \ {<<>>})
    /\ all_jobs = unique_jobs
    /\ scored_jobs = <<>> /\ relevant_jobs = <<>> /\ new_jobs = <<>>
    /\ marked = 0 /\ report_jobs = <<>>
    /\ report = NoReport
    /\ run_start = 0 /\ cleanups = 1 /\ cleanup_days = RetentionDays
    /\ faulted = FALSE /\ returned = all_jobs
    /\ expired = {} /\ marked_run = EmptySeen

NextScore == Score

SpecScore == InitScore /\ [][NextScore]_vars

(***************************************************************************)
(* The rules of the scorer one by one: profiles that switch single rules   *)
(* on and off, the profile of the scoring scenario and a profile with      *)
(* every rule.                                                             *)
(***************************************************************************)
\* a posting whose title holds a seniority indicator and no target title
JobHead == JobPosting("Head of Sales", "Gamma", "Hamburg", "https://g.com/1",
                      "pharma sales", "")

RuleJobs == {JobC, JobHead, JobD, JobRich, JobPoor}

\* the profile of the scoring scenario: a target title, three keywords, one
\* included location and no other rule
ScenarioProfile ==
    [profile |-> [target_titles |-> <<"strategy manager">>,
                  positive_keywords |-> <<"health", "pharma", "digital">>,
                  negative_keywords |-> <<>>, min_relevance_score |-> 50],
     search_queries |-> <<>>,
     locations |-> [include |-> <<"berlin">>, exclude |-> <<>>],
     salary |-> [seniority_indicators |-> <<>>],
     target_companies |-> <<>>,
     output |-> [max_results_per_report |-> 1]]

\* a profile with every rule, two exclusions and two negative keywords
FullProfile ==
    [profile |-> [target_titles |-> <<"Strategy Manager">>,
                  positive_keywords |-> <<"health", "pharma", "digital">>,
                  negative_keywords |-> <<"intern", "junior">>,
                  min_relevance_score |-> 50],
     search_queries |-> <<>>,
     locations |-> [include |-> <<"Berlin">>, exclude |-> <<"usa", "austin">>],
     salary |-> [seniority_indicators |-> <<"senior", "head">>],
     target_companies |-> << <<[name |-> "Acme Health"]>> >>,
     output |-> [max_results_per_report |-> 1]]

RuleProfiles ==
    { [profile |-> [target_titles |-> tt, positive_keywords |-> pk,
                    negative_keywords |-> <<>>, min_relevance_score |-> 50],
       search_queries |-> <<>>,
       locations |-> [include |-> li, exclude |-> <<>>],
       salary |-> [seniority_indicators |-> si],
       target_companies |-> <<>>,
       output |-> [max_results_per_report |-> 1]] :
      tt \in {<<>>, <<"Strategy Manager">>, <<"Manager", "Strategy Manager">>},
      si \in {<<>>, <<"senior", "head">>},
      pk \in {<<>>, <<"health", "pharma", "digital">>, <<"health", "Health", "pharma">>,
              <<"health", "pharma", "digital", "strategy", "manager", "acme", "berlin">>},
      li \in {<<>>, <<"berlin">>} }
    \cup {ScenarioProfile, FullProfile}

InitRules ==
    /\ clock = 0 /\ file = NoFile
    /\ args = [NoArgs EXCEPT !.config = "config.yaml"]
    /\ cfg \in RuleProfiles
    /\ data = EmptyData
    /\ pc = "score"
    /\ active = ScraperNames /\ idx = Len(ScraperNames)
    /\ unique_jobs \in (SeqsUpTo(RuleJobs, MaxJobs) \ {<<>>})
    /\ all_jobs = unique_jobs
    /\ scored_jobs = <<>> /\ relevant_jobs = <<>> /\ new_jobs = <<>>
    /\ marked = 0 /\ report_jobs = <<>>
    /\ report = NoReport
    /\ run_start = 0 /\ cleanups = 1 /\ cleanup_days = RetentionDays
    /\ faulted = FALSE /\ returned = all_jobs
    /\ expired = {} /\ marked_run = EmptySeen

NextRules == Score

SpecRules == InitRules /\ [][NextRules]_vars

(***************************************************************************)
(* The deduplication loop on its own, on lists drawn from a bounded set.   *)
(***************************************************************************)
\* the same job with and without a url
JobU1 == JobPosting("Data Lead", "Acme", "Berlin", "https://a.com/1", "", "")
JobU2 == JobPosting("Data Lead", "Acme", "Berlin", "", "", "")
\* two jobs without url whose titles and companies differ
JobP1 == JobPosting("PM|Health", "Acme", "Berlin", "", "", "")
JobP2 == JobPosting("PM", "Health|Acme", "Berlin", "", "", "")

DedupJobs == {JobA, JobB, JobC, JobD, JobU1, JobU2, JobP1, JobP2}

InitDedup ==
    /\ clock = 0 /\ file = NoFile
    /\ args = [NoArgs EXCEPT !.config = "config.yaml"]
    /\ cfg = ValidCfg
    /\ data = EmptyData
    /\ pc = "dedup"
    /\ active = ScraperNames /\ idx = Len(ScraperNames)
    /\ all_jobs \in SeqsUpTo(DedupJobs, MaxJobs)
    /\ unique_jobs = <<>> /\ scored_jobs = <<>> /\ relevant_jobs = <<>>
    /\ new_jobs = <<>> /\ marked = 0 /\ report_jobs = <<>>
    /\ report = NoReport
    /\ run_start = 0 /\ cleanups = 1 /\ cleanup_days = RetentionDays
    /\ faulted = FALSE /\ returned = all_jobs
    /\ expired = {} /\ marked_run = EmptySeen

NextDedup == Deduplicate

SpecDedup == InitDedup /\ [][NextDedup]_vars

(***************************************************************************)
(* The store on its own: a persisted store drawn from a bounded set is     *)
(* loaded and cleanup() is called with a retention drawn from DaysInputs.  *)
(***************************************************************************)
StoreIds == {"Data Lead|Acme|", "PM|Health|Acme|"}
StoreDays == {0, 9, 10, 11, 39, 40}
DaysInputs == {0, 1, RetentionDays}

SeenRecord(t) == [title |-> "Data Lead", company |-> "Acme",
                  first_seen |-> isoformat(t), score |-> 55]

StoreInputs ==
    { [seen |-> [k \in ids |-> SeenRecord(when[k])],
       last_run |-> isoformat(40),
       stats |-> [total_seen |-> Cardinality(ids), total_reported |-> 2]] :
      ids \in SUBSET StoreIds, when \in [StoreIds -> StoreDays] }

InitStore ==
    /\ clock = 40
    /\ file \in {JsonFile(d) : d \in StoreInputs}
    /\ args = [NoArgs EXCEPT !.config = "config.yaml"]
    /\ cfg = ValidCfg
    /\ data = NoData
    /\ pc = "init"
    /\ NoLocals
    /\ report = NoReport
    /\ run_start = 40 /\ cleanups = 0 /\ cleanup_days = 0
    /\ faulted = FALSE /\ returned = <<>>
    /\ expired = {} /\ marked_run = EmptySeen

CleanupAny == \E d \in DaysInputs : CleanupCall(d)

NextStore == OpenStore \/ CleanupAny

SpecStore == InitStore /\ [][NextStore]_vars

(***************************************************************************)
(* The scrapers: what LinkedInScraper, StepStoneScraper and                *)
(* RemoteJobScraper make of one result card.  An element of a card is what *)
(* select_one() found: present or not, with its text or its href.          *)
(***************************************************************************)
El(text) == [present |-> TRUE, text |-> text]
NoEl == [present |-> FALSE, text |-> ""]

RECURSIVE LStrip(_)
LStrip(s) == IF s # "" /\ IsSpace(CharAt(s, 1)) THEN LStrip(SubSeq(s, 2, Len(s))) ELSE s

RECURSIVE RStrip(_)
RStrip(s) == IF s # "" /\ IsSpace(CharAt(s, Len(s)))
             THEN RStrip(SubSeq(s, 1, Len(s) - 1)) ELSE s

\* el.get_text(strip=True) of an element with one text node
get_text(el) == RStrip(LStrip(el.text))

\* s.startswith(p)
StartsWith(s, p) == Len(s) >= Len(p) /\ SubSeq(s, 1, Len(p)) = p

\* s.split("?")[0]
BeforeQuery(s) ==
    LET at == {i \in 1..Len(s) : CharAt(s, i) = "?"}
    IN  IF at = {} THEN s
        ELSE SubSeq(s, 1, (CHOOSE i \in at : \A k \in at : i <= k) - 1)

\* href of the link element, made absolute when it starts with "/"
AbsoluteHref(link_el, site) ==
    IF link_el.present /\ link_el.text # ""
    THEN IF StartsWith(link_el.text, "/") THEN site \o link_el.text ELSE link_el.text
    ELSE ""

\* LinkedInScraper.scrape, one card: title and company elements are required
LinkedInCard(card) ==
    IF card.title_el.present /\ card.company_el.present
    THEN <<JobPosting(get_text(card.title_el), get_text(card.company_el),
                      IF card.loc_el.present THEN get_text(card.loc_el) ELSE "Germany",
                      IF card.link_el.present /\ card.link_el.text # ""
                      THEN BeforeQuery(card.link_el.text) ELSE "",
                      "", "")>>
    ELSE <<>>

\* StepStoneScraper.scrape, one card: only the title element is required
StepStoneCard(card) ==
    IF card.title_el.present
    THEN <<JobPosting(get_text(card.title_el),
                      IF card.company_el.present THEN get_text(card.company_el) ELSE "",
                      IF card.loc_el.present THEN get_text(card.loc_el) ELSE "Germany",
                      AbsoluteHref(card.link_el, "https://www.stepstone.de"),
                      "", "")>>
    ELSE <<>>

\* RemoteJobScraper.scrape, one row: only the title element is required
RemoteCard(card) ==
    IF card.title_el.present
    THEN <<JobPosting(get_text(card.title_el),
                      IF card.company_el.present THEN get_text(card.company_el) ELSE "",
                      "Remote",
                      IF card.link_el.present
                      THEN IF StartsWith(card.link_el.text, "/")
                           THEN "https://remoteok.com" \o card.link_el.text
                           ELSE card.link_el.text
                      ELSE "",
                      "", "")>>
    ELSE <<>>

\* the scrapers whose card handling is modelled
CardScrapers == {"linkedin", "stepstone", "remote"}

CardOf(name, card) ==
    IF name = "linkedin" THEN LinkedInCard(card)
    ELSE IF name = "stepstone" THEN StepStoneCard(card)
    ELSE RemoteCard(card)

RECURSIVE ScrapeCards(_, _)
\* the jobs list a scraper returns for the cards of its result pages
ScrapeCards(name, cards) ==
    IF cards = <<>> THEN <<>>
    ELSE CardOf(name, Head(cards)) \o ScrapeCards(name, Tail(cards))

\* result cards: complete, without company element, without title element,
\* and without location and link elements
CardInputs ==
    { [title_el |-> El(" Strategy Manager "), company_el |-> El("Acme"),
       loc_el |-> El("Berlin"), link_el |-> El("/jobs/1?ref=a")],
      [title_el |-> El("Strategy Manager"), company_el |-> NoEl,
       loc_el |-> El("Berlin"), link_el |-> El("/jobs/2")],
      [title_el |-> NoEl, company_el |-> El("Acme"),
       loc_el |-> NoEl, link_el |-> El("/jobs/3")],
      [title_el |-> El("Data Lead"), company_el |-> El("Acme"),
       loc_el |-> NoEl, link_el |-> NoEl] }

InitAdapters ==
    /\ clock = 0 /\ file = NoFile
    /\ args \in {[NoArgs EXCEPT !.config = "config.yaml", !.source = n] : n \in CardScrapers}
    /\ cfg = ValidCfg
    /\ data = EmptyData
    /\ pc = "fetch"
    /\ active = <<args.source>> /\ idx = 0
    /\ all_jobs = <<>> /\ unique_jobs = <<>> /\ scored_jobs = <<>>
    /\ relevant_jobs = <<>> /\ new_jobs = <<>> /\ marked = 0
    /\ report_jobs = <<>>
    /\ report = NoReport
    /\ run_start = 0 /\ cleanups = 1 /\ cleanup_days = RetentionDays
    /\ faulted = FALSE /\ returned = <<>>
    /\ expired = {} /\ marked_run = EmptySeen

\* one iteration of the scraper loop, the scraper returning what it makes of
\* the cards it was served
FetchCards ==
    /\ pc = "fetch"
    /\ idx < Len(active)
    /\ idx' = idx + 1
    /\ \E cards \in SeqsUpTo(CardInputs, MaxJobs) :
          LET jobs == ScrapeCards(active[idx + 1], cards)
          IN  /\ all_jobs' = AfterReturn(all_jobs, jobs)
              /\ returned' = returned \o jobs
    /\ pc' = AfterScraper(idx + 1, Len(active))
    /\ UNCHANGED <<clock, file, args, cfg, data, active, unique_jobs, scored_jobs,
                   relevant_jobs, new_jobs, marked, report_jobs, report,
                   run_start, cleanups, cleanup_days, faulted, expired, marked_run>>

NextAdapters ==
    FetchCards \/ Deduplicate \/ Score \/ Filter \/ Novelty \/ MarkSeen

SpecAdapters == InitAdapters /\ [][NextAdapters]_vars

(***************************************************************************)
(* Properties.                                                             *)
(***************************************************************************)
\* C1: every score the scorer writes lies between 0 and 100, also when the
\* signals sum above 100 or the penalties sum below 0
ScoreBounds ==
    \A i \in DOMAIN scored_jobs :
        /\ scored_jobs[i].relevance_score >= 0
        /\ scored_jobs[i].relevance_score <= 100

\* a scored list with one raw sum above 100 and one below 0
ScoreBoundsWitness ==
    /\ pc = "filter"
    /\ \E i \in DOMAIN scored_jobs :
         /\ RawScore(unique_jobs[i], cfg) = 35 + 30 + 20 + 15 + 10
         /\ scored_jobs[i].relevance_score = 100
    /\ \E i \in DOMAIN scored_jobs :
         /\ RawScore(unique_jobs[i], cfg) < 0
         /\ scored_jobs[i].relevance_score = 0

Range(seq) == {seq[i] : i \in DOMAIN seq}

\* the seen map the program holds, or the persisted one between runs
SeenMap == IF "seen" \in DOMAIN data THEN data.seen
           ELSE IF file.kind = "json" /\ "seen" \in DOMAIN file.doc
                THEN file.doc.seen ELSE EmptySeen

\* C2: mark_seen is only called for a job_id that is absent from the seen map
\* at that moment, and the first_seen of an entry never changes while the
\* entry stays in the map
FirstSeenSetOnce ==
    [][ /\ (pc = "mark" /\ marked' = marked + 1) => is_new(data, new_jobs[marked + 1])
        /\ \A k \in DOMAIN SeenMap \cap DOMAIN SeenMap' :
              SeenMap'[k].first_seen = SeenMap[k].first_seen ]_vars

\* the job_id was marked by an earlier run that started less than the
\* retention window before the current one (and the store was not reset since)
MarkedWithinRetention(id) ==
    /\ id \in DOMAIN marked_run
    /\ fromisoformat(marked_run[id]) < run_start
    /\ run_start - fromisoformat(marked_run[id]) < RetentionDays

\* C3: a posting marked by an earlier run that started less than 30 days
\* before the current run is not new in the current run and is not reported
NotNewWithinRetention ==
    \A i \in DOMAIN all_jobs :
        MarkedWithinRetention(all_jobs[i].job_id) =>
            /\ pc \in {"fetch", "dedup", "score", "filter", "novelty"}
                   => ~is_new(data, all_jobs[i])
            /\ \A k \in DOMAIN new_jobs : new_jobs[k].job_id # all_jobs[i].job_id
            /\ \A k \in DOMAIN report_jobs : report_jobs[k].job_id # all_jobs[i].job_id
            /\ \A k \in DOMAIN report.jobs : report.jobs[k].job_id # all_jobs[i].job_id

\* a finished run that scraped a qualifying posting marked 29 days before
NotNewWithinRetentionWitness ==
    /\ pc = "done"
    /\ report.written
    /\ \E i \in DOMAIN scored_jobs :
         /\ scored_jobs[i].relevance_score >= min_score(cfg)
         /\ MarkedWithinRetention(scored_jobs[i].job_id)

\* C4: a run calls cleanup once, before the novelty filter and the marking
\* loop, and a qualifying posting whose entry was older than the retention
\* window at the start of the run is new and is marked again with the time of
\* this run
CleanupBeforeNovelty ==
    /\ pc \in {"config", "init", "cleanup"} => cleanups = 0
    /\ pc \in {"select", "fetch", "dedup", "score", "filter", "novelty", "mark",
               "save", "truncate", "generate", "done"} => cleanups = 1
    /\ pc \in {"mark", "save", "truncate", "generate", "done"} =>
         \A i \in DOMAIN relevant_jobs :
            relevant_jobs[i].job_id \in expired
               => relevant_jobs[i] \in Range(new_jobs)
    /\ pc \in {"save", "truncate", "generate", "done"} =>
         \A i \in DOMAIN relevant_jobs :
            relevant_jobs[i].job_id \in expired =>
               /\ relevant_jobs[i].job_id \in DOMAIN data.seen
               /\ data.seen[relevant_jobs[i].job_id].first_seen = isoformat(run_start)

\* a finished run that scraped a qualifying posting whose entry had expired
CleanupBeforeNoveltyWitness ==
    /\ pc = "done"
    /\ \E i \in DOMAIN relevant_jobs :
         /\ relevant_jobs[i].job_id \in expired
         /\ run_start > 0

\* C5: cleanup(d) leaves no entry older than d days, keeps every entry newer
\* than d days as it was, and adds none
CleanupRetention ==
    [][ (pc = "cleanup" /\ pc' = "select") =>
          LET cutoff == clock - timedelta(cleanup_days')
          IN  /\ \A k \in DOMAIN data'.seen :
                    ~(fromisoformat(data'.seen[k].first_seen) < cutoff)
              /\ \A k \in DOMAIN data.seen :
                    fromisoformat(data.seen[k].first_seen) > cutoff =>
                       /\ k \in DOMAIN data'.seen
                       /\ data'.seen[k] = data.seen[k]
              /\ DOMAIN data'.seen \subseteq DOMAIN data.seen ]_vars

\* a cleanup(30) that dropped an expired entry and kept another one
CleanupRetentionWitness ==
    /\ pc = "select"
    /\ cleanup_days = RetentionDays
    /\ expired # {}
    /\ expired \cap DOMAIN data.seen = {}
    /\ DOMAIN data.seen # {}

\* C6: the report of a finished run is in non-increasing score order and no
\* new posting left out of it scores higher than a posting in it
ReportIsTopRanked ==
    pc = "done" =>
        /\ \A i, k \in DOMAIN report.jobs :
              i < k => report.jobs[i].relevance_score >= report.jobs[k].relevance_score
        /\ \A j \in Range(new_jobs) \ Range(report.jobs) :
              \A r \in Range(report.jobs) : j.relevance_score <= r.relevance_score

\* C7: every posting a run has marked seen is in the list given to the
\* report renderer in that run
MarkedAreReported ==
    pc \in {"generate", "done"} =>
        \A k \in 1..marked : new_jobs[k] \in Range(report_jobs)

\* the key of the deduplication as the claim states it
PairKey(job) == IF job.url # "" THEN <<"url", job.url>>
                ELSE <<"pair", job.title, job.company>>

\* the first posting of every distinct PairKey, in order of first occurrence
FirstByPairKey(jobs) ==
    LET first == SelectSeq([i \in DOMAIN jobs |-> i],
                           LAMBDA i : \A k \in 1..(i - 1) : PairKey(jobs[k]) # PairKey(jobs[i]))
    IN  [n \in DOMAIN first |-> jobs[first[n]]]

\* C8: the deduplicated list holds the first posting of each distinct key,
\* the key being the url when there is one and the pair (title, company)
\* otherwise
DedupByUrlOrPair ==
    pc = "score" => unique_jobs = FirstByPairKey(all_jobs)

\* C9: a scraper that raises contributes nothing and ends nothing: all_jobs
\* is what the other scrapers returned, it is deduplicated and scored, the run
\* (its configuration being valid) neither aborts nor returns early, and a
\* finished run has saved the store and written the report
ScraperFaultsIsolated ==
    /\ pc \in {"fetch", "dedup", "score", "filter", "novelty", "mark", "save",
               "truncate", "generate", "done"} => all_jobs = returned
    /\ (active # <<>> /\ ConfigValid(args.config)) => pc \notin {"aborted", "returned"}
    /\ pc = "score" => unique_jobs = Dedup(returned)
    /\ pc = "filter" => Len(scored_jobs) = Len(Dedup(returned))
    /\ pc = "done" => report.written /\ file = JsonFile(data)

\* a finished run in which a scraper raised and another returned postings
ScraperFaultsIsolatedWitness ==
    /\ pc = "done"
    /\ faulted
    /\ returned # <<>>
    /\ report.written

\* C10: a run with a valid configuration that is neither a dry run nor a
\* reset does not end without a report
EveryValidRunReports ==
    (/\ pc \in {"done", "returned", "aborted"}
     /\ ConfigValid(args.config)
     /\ ~args.dry_run
     /\ ~args.reset) => report.written

\* the state file of the current run does not hold a store cleanup() can read
CorruptFile(f) == f.kind = "garbage" \/ (f.kind = "json" /\ CleanupRaises(f.doc))

\* C11: loading the store never fails the run: with a missing, unparseable
\* or corrupt state file the store starts from the empty state, and no run
\* ends in an exception of a store operation
LoadNeverFailsRun ==
    /\ (pc = "select" /\ (file = NoFile \/ CorruptFile(file))) => data = EmptyData
    /\ ~(pc = "aborted" /\ data # NoData /\ active = <<>>)

\* C12: with a missing or malformed profile document a run (one that is
\* neither a dry run nor a reset) aborts: no scraper is invoked, the state
\* file is not written and the run does not finish
ConfigFaultAbortsEarly ==
    [][ (/\ pc' # "idle"
         /\ ~ConfigValid(args'.config)
         /\ ~args'.dry_run /\ ~args'.reset) =>
            /\ idx' = 0
            /\ file' = file
            /\ pc' # "done" ]_vars

\* stats.total_reported of the persisted state, 0 when there is none
PersistedReported(f) ==
    IF f.kind = "json" /\ "stats" \in DOMAIN f.doc
    THEN f.doc.stats.total_reported ELSE 0

\* C13: the save of a run persists the former total_reported plus the number
\* of postings of this run that cleared the threshold and were new; the
\* persisted value never decreases except by a reset, which sets it to 0
TotalReportedAccumulates ==
    [][ /\ (pc = "save" /\ pc' = "truncate") =>
              PersistedReported(file') = PersistedReported(file) + Len(new_jobs)
        /\ (pc = "init" /\ args.reset) => PersistedReported(file') = 0
        /\ ~(pc = "init" /\ args.reset) =>
              PersistedReported(file') >= PersistedReported(file) ]_vars

\* a later run that found a new posting and saved on top of an earlier count
TotalReportedAccumulatesWitness ==
    /\ pc = "truncate"
    /\ run_start > 0
    /\ Len(new_jobs) >= 1
    /\ PersistedReported(file) > Len(new_jobs)

\* C14: whenever the program writes the state file, by save() at the end of
\* a run or by reset(), stats.total_seen of the written state is the number
\* of entries of its seen map
TotalSeenIsMapSize ==
    [][ file' # file =>
           file'.doc.stats.total_seen = Cardinality(DOMAIN file'.doc.seen) ]_vars

\* a saved run in which cleanup removed an entry and nothing was marked
TotalSeenIsMapSizeWitness ==
    /\ pc = "truncate"
    /\ expired # {}
    /\ new_jobs = <<>>
    /\ file.doc.stats.total_seen < file.doc.stats.total_reported

\* C15: every posting a scraper returns has a title and a company, so no
\* posting without company is deduplicated, scored or entered in the seen map
AdaptersDropIncomplete ==
    /\ \A i \in DOMAIN all_jobs :
          all_jobs[i].title # "" /\ all_jobs[i].company # ""
    /\ \A k \in DOMAIN data.seen :
          data.seen[k].title # "" /\ data.seen[k].company # ""

\* C16: the deduplication loop applied to its own output returns that output,
\* the same postings in the same order
DedupIdempotent ==
    pc = "score" => Dedup(unique_jobs) = unique_jobs

\* a deduplication that dropped a posting and kept another
DedupIdempotentWitness ==
    /\ pc = "score"
    /\ unique_jobs # <<>>
    /\ Len(unique_jobs) < Len(all_jobs)

\* some phrase of the list occurs in the text
AnyIn(list, text) == \E i \in DOMAIN list : Contains(list[i], text)

\* the first phrase of the list that occurs in the text
FirstPhraseIn(list, text) ==
    list[CHOOSE i \in DOMAIN list :
            /\ Contains(list[i], text)
            /\ \A k \in 1..(i - 1) : ~Contains(list[k], text)]

\* the reasons of a scored posting that name the rule
ReasonsOf(job, rule) == SelectSeq(job.match_reasons, LAMBDA r : r.rule = rule)

\* C17: a posting whose title holds a target title gets one title reason,
\* naming the first such title, and no seniority reason; only a posting
\* without target title gets a seniority reason; where no other rule fires
\* the score is 35, 15 or 0, never 50
TitleOrSeniority ==
    pc = "filter" =>
        \A i \in DOMAIN scored_jobs :
            LET job == scored_jobs[i]
                title_lower == lower(job.title)
                titleHit == AnyIn(target_titles(cfg), title_lower)
                seniorHit == AnyIn(seniority_indicators(cfg), title_lower)
                tr == ReasonsOf(job, "Title match")
                sr == ReasonsOf(job, "Seniority match")
            IN  /\ Len(tr) = IF titleHit THEN 1 ELSE 0
                /\ titleHit => tr[1].what = FirstPhraseIn(target_titles(cfg), title_lower)
                /\ Len(sr) = IF ~titleHit /\ seniorHit THEN 1 ELSE 0
                /\ Len(job.match_reasons) = Len(tr) + Len(sr) =>
                      job.relevance_score = IF titleHit THEN 35
                                            ELSE IF seniorHit THEN 15 ELSE 0

\* a posting with target title and seniority indicator in its title, scored
\* 35 by a profile with no other rule
TitleOrSeniorityWitness ==
    /\ pc = "filter"
    /\ \E i \in DOMAIN scored_jobs :
          /\ AnyIn(target_titles(cfg), lower(scored_jobs[i].title))
          /\ AnyIn(seniority_indicators(cfg), lower(scored_jobs[i].title))
          /\ Len(target_titles(cfg)) = 2
          /\ Len(scored_jobs[i].match_reasons) = 1
          /\ scored_jobs[i].relevance_score = 35

\* the text the keyword rule searches
KeywordText(job) ==
    lower(job.title \o " " \o job.company \o " " \o job.description \o " "
          \o job.location)

\* the number of distinct positive keywords that occur in the text
DistinctHits(job, c) ==
    Cardinality({kw \in Range(positive_keywords(c)) : Contains(kw, KeywordText(job))})

\* C18: the keyword rule counts the distinct positive keywords that occur in
\* title, company, description and location: with h of them the posting has
\* one keyword reason naming h, none when h = 0, and where no other rule
\* fires the score is min(30, 5 * h)
KeywordDensity ==
    pc = "filter" =>
        \A i \in DOMAIN scored_jobs :
            LET job == scored_jobs[i]
                h == DistinctHits(job, cfg)
                kr == ReasonsOf(job, "Keywords")
            IN  /\ Len(kr) = IF h = 0 THEN 0 ELSE 1
                /\ h > 0 => kr[1].n = h
                /\ Len(job.match_reasons) = Len(kr) =>
                      job.relevance_score = Min(30, 5 * h)

\* the place of a reason's rule in the order of the rules
RuleRank(rule) ==
    CASE rule \in {"Title match", "Seniority match"} -> 1
      [] rule = "Keywords" -> 2
      [] rule = "Location" -> 3
      [] rule = "Location excluded" -> 4
      [] rule = "Target company" -> 5
      [] rule \in {"Salary", "Low salary"} -> 6
      [] rule = "Negative" -> 7

\* the points of the signal a reason discloses
ReasonPts(r) ==
    CASE r.rule = "Title match" -> 35
      [] r.rule = "Seniority match" -> 15
      [] r.rule = "Keywords" -> Min(30, 5 * r.n)
      [] r.rule = "Location" -> 20
      [] r.rule = "Location excluded" -> 0 - 50
      [] r.rule = "Target company" -> 15
      [] r.rule = "Salary" -> 10
      [] r.rule = "Low salary" -> 0 - 20
      [] r.rule = "Negative" -> 0 - 40

RECURSIVE SumReasonPts(_)
SumReasonPts(reasons) ==
    IF reasons = <<>> THEN 0
    ELSE ReasonPts(Head(reasons)) + SumReasonPts(Tail(reasons))

\* the posting of the scoring scenario
IsScenarioJob(job) ==
    /\ job.title = "Senior Strategy Manager" /\ job.company = "Acme Health"
    /\ job.location = "Berlin, Germany" /\ job.description = "digital health pharma"
    /\ job.url = "" /\ job.salary_info = ""

\* C19: the score is the clamp to [0, 100] of the points of the signals the
\* reasons disclose, the reasons are in the order of the rules, and the
\* posting of the scenario scores 70 under the profile of the scenario with
\* the three reasons title, keywords (3) and location
ScoreIsClampedSum ==
    pc = "filter" =>
        \A i \in DOMAIN scored_jobs :
            LET job == scored_jobs[i]
                rs == job.match_reasons
            IN  /\ job.relevance_score = Max(0, Min(100, SumReasonPts(rs)))
                /\ \A a, b \in DOMAIN rs :
                      a < b => RuleRank(rs[a].rule) <= RuleRank(rs[b].rule)
                /\ (IsScenarioJob(job) /\ cfg = ScenarioProfile) =>
                      /\ job.relevance_score = 70
                      /\ rs = << Reason("Title match", "strategy manager", 0),
                                 Reason("Keywords", "health, pharma, digital", 3),
                                 Reason("Location", "berlin", 0) >>

\* the posting of the scenario scored under the profile of the scenario
ScoreIsClampedSumWitness ==
    /\ pc = "filter"
    /\ cfg = ScenarioProfile
    /\ \E i \in DOMAIN scored_jobs :
          /\ IsScenarioJob(scored_jobs[i])
          /\ scored_jobs[i].relevance_score = 70
          /\ Len(scored_jobs[i].match_reasons) = 3

\* no two elements of the list have the same job_id
DistinctIds(jobs) ==
    \A i, k \in DOMAIN jobs : i # k => jobs[i].job_id # jobs[k].job_id

\* C20: after the deduplication no two postings of the run have the same
\* job_id, so new_jobs holds no job_id twice and the marking loop calls
\* mark_seen at most once per job_id
UniqueIdentityAfterDedup ==
    /\ pc \in {"score", "filter", "novelty", "mark", "save", "truncate",
               "generate", "done"} => DistinctIds(unique_jobs)
    /\ DistinctIds(new_jobs)

\* C21: every state file the program has written, by the save of a run or by
\* a reset, on top of a missing, unparseable, empty or reset store has
\* stats.total_seen <= stats.total_reported
SeenAtMostReported ==
    file \notin FileInputs =>
        file.doc.stats.total_seen <= file.doc.stats.total_reported

\* the save of a later run in which cleanup removed an entry of an earlier
\* run and a new posting was marked: fewer entries than postings counted
SeenAtMostReportedWitness ==
    /\ pc = "truncate"
    /\ run_start > 0
    /\ expired # {}
    /\ Len(new_jobs) >= 1
    /\ file.doc.stats.total_seen >= 1
    /\ file.doc.stats.total_seen < file.doc.stats.total_reported

====
